---- MODULE Spec2Model ----
(***************************************************************************)
(* Behaviour of the tutorial notebooks' code cells.                        *)
(*                                                                         *)
(*  - "2 Torch AutoGrad.ipynb": the leaf tensor x = ones(2, 2), the graph  *)
(*    y = x + 2, z = y * y * 3, out = z.mean() and the cells that run      *)
(*    backward(), retain_grad(), zero_(), .grad reads, no_grad() and       *)
(*    detach() on it, with the outputs the notebook records.               *)
(*  - "3 Torch NN.ipynb": Module.__call__ as quoted, and DynamicNet.       *)
(*                                                                         *)
(* Gradients are rationals with denominator Denom: 4.5 is 18, 1.0 is 4.    *)
(***************************************************************************)
EXTENDS Integers, Sequences, FiniteSets, TLC

VARIABLES
    tensors,          \* the notebook names x, y, z, out -> the tensor each is bound to
    graph,            \* the computation graph behind out: its buffers and what they saved
    grad_enabled,     \* autograd's grad mode (False inside `with torch.no_grad():`)
    err,              \* what the last executed cell raised ("none" if nothing)
    read,             \* the last `<tensor>.grad` cell: the tensor read and what came back
    tmp,              \* the unnamed result of the last `x ** 2`
    passes,           \* successful backward passes since x.grad was created or zeroed
    retained_passes,  \* successful backward passes over out since out.retain_grad()
    module,           \* an nn.Module instance: its hook dictionaries
    call,             \* the outcome of the last model(x) / model.forward(x)
    net,              \* a DynamicNet instance: its registered Linear submodules
    fwd,              \* the outcome of the last DynamicNet.forward
    variants,         \* the three TwoLayerNet variants: shared weights, last input and outputs
    loading,          \* the DataLoaders a notebook created and the batches loaded from them
    helper,           \* the outcome of the last call of a notebook helper function
    kernel            \* a notebook's kernel: the next cell to run and the names bound so far

autograd_vars == <<tensors, graph, grad_enabled, err, read, tmp, passes, retained_passes>>
nn_vars == <<module, call, net, fwd>>
lesson_vars == <<variants, loading, helper, kernel>>
vars == <<tensors, graph, grad_enabled, err, read, tmp, passes, retained_passes,
          module, call, net, fwd, variants, loading, helper, kernel>>

----------------------------------------------------------------------------
(* Bounds *)

MaxPasses == 3        \* backward passes accumulated into one .grad

----------------------------------------------------------------------------
(* Tensors of the autograd notebook *)

NumEl == 4            \* torch.ones(2, 2) has four entries
Denom == NumEl        \* gradients are stored as numerators over Denom (mean divides by NumEl)

None == << >>         \* Python's None for a .grad attribute

Names == {"x", "y", "z", "out"}

Const(n, v) == [i \in 1..n |-> v]

\* torch.ones(2, 2, requires_grad=True)
ones(requires_grad) ==
    [data |-> Const(NumEl, 1), requires_grad |-> requires_grad, is_leaf |-> TRUE,
     grad |-> None, retains_grad |-> FALSE, grad_fn |-> "None"]

\* requires_grad of an operation's result, given its operand's flag
ResultRequiresGrad_ignores_mode(operand_requires_grad, mode) == operand_requires_grad

ResultRequiresGrad(operand_requires_grad, mode) == operand_requires_grad /\ mode

\* the tensor an operation returns: a leaf iff it does not require grad
OpResult(data, operand, mode, fn) ==
    LET rg == ResultRequiresGrad(operand.requires_grad, mode)
    IN  [data |-> data, requires_grad |-> rg, is_leaf |-> ~rg,
         grad |-> None, retains_grad |-> FALSE,
         grad_fn |-> IF rg THEN fn ELSE "None"]

\* y = x + 2
AddTwo(t, mode) ==
    OpResult([i \in 1..Len(t.data) |-> t.data[i] + 2], t, mode, "AddBackward0")

\* z = y * y * 3
SquareTimes3(t, mode) ==
    OpResult([i \in 1..Len(t.data) |-> t.data[i] * t.data[i] * 3], t, mode, "MulBackward0")

RECURSIVE SumSeq(_)
SumSeq(s) == IF s = << >> THEN 0 ELSE Head(s) + SumSeq(Tail(s))

\* out = z.mean()
Mean(t, mode) ==
    OpResult(<<SumSeq(t.data) \div Len(t.data)>>, t, mode, "MeanBackward0")

\* x ** 2
Pow2(t, mode) ==
    OpResult([i \in 1..Len(t.data) |-> t.data[i] * t.data[i]], t, mode, "PowBackward0")

\* x.eq(y): elementwise equality
eq(a, b) == [i \in 1..Len(a.data) |-> a.data[i] = b.data[i]]

\* <bool tensor>.all()
all(s) == \A i \in 1..Len(s) : s[i]

\* x.detach()
detach_keeps_requires_grad(t) ==
    [data |-> t.data, requires_grad |-> t.requires_grad, is_leaf |-> TRUE,
     grad |-> None, retains_grad |-> FALSE, grad_fn |-> "None"]

detach(t) ==
    [data |-> t.data, requires_grad |-> FALSE, is_leaf |-> TRUE,
     grad |-> None, retains_grad |-> FALSE, grad_fn |-> "None"]

----------------------------------------------------------------------------
(* backward() *)

RetainArgs == {"None", "True", "False"}

\* retain_graph "Defaults to the value of create_graph"
RetainGraph(retain_graph, create_graph) ==
    IF retain_graph = "None" THEN create_graph ELSE retain_graph = "True"

\* the graph's buffers after a backward pass
BuffersAfter_never_freed(retain_graph, create_graph) == "live"

BuffersAfter(retain_graph, create_graph) ==
    IF RetainGraph(retain_graph, create_graph) THEN "live" ELSE "freed"

\* the chain rule over out = mean(3 * y^2), y = x + 2, seeded with d out/d out = 1
BackwardGrads ==
    LET g_out == <<Denom>>
        g_z   == [i \in 1..NumEl |-> g_out[1] \div NumEl]
        g_y   == [i \in 1..NumEl |-> g_z[i] * 2 * 3 * graph.saved_y[i]]
        g_x   == g_y
    IN  [x |-> g_x, y |-> g_y, z |-> g_z, out |-> g_out]

\* "This function accumulates gradients in the leaves"
Accumulate_replaces(old, g) == g

Accumulate(old, g) ==
    IF old = None THEN g ELSE [i \in 1..Len(g) |-> old[i] + g[i]]

\* a retained non-leaf gradient is accumulated the same way
AccumulateRetained_replaces(old, g) == g

AccumulateRetained(old, g) ==
    IF old = None THEN g ELSE [i \in 1..Len(g) |-> old[i] + g[i]]

\* the tensors whose .grad a backward pass writes
Populated_every_node(t) == TRUE

Populated(t) ==
    \/ t.requires_grad /\ t.is_leaf
    \/ t.requires_grad /\ ~t.is_leaf /\ t.retains_grad

\* x.grad.zero_()
zero_leaves_value(g) == g

zero_(g) == [i \in 1..Len(g) |-> 0]

\* <tensor>.grad: the value returned, whether the UserWarning is issued, the exception
GradRead_raises(t) ==
    IF ~t.is_leaf /\ ~t.retains_grad
    THEN [value |-> None, warned |-> FALSE, raised |-> "RuntimeError"]
    ELSE [value |-> t.grad, warned |-> FALSE, raised |-> "none"]

GradRead(t) ==
    [value  |-> t.grad,
     warned |-> t.requires_grad /\ ~t.is_leaf /\ ~t.retains_grad /\ t.grad = None,
     raised |-> "none"]

NoRead == [tensor |-> "-", is_leaf |-> TRUE, retains_grad |-> FALSE,
           value |-> None, warned |-> FALSE, raised |-> "none"]

NoTmp == [made |-> FALSE, mode |-> TRUE, requires_grad |-> FALSE]

----------------------------------------------------------------------------
(* Cells of the autograd notebook *)

\* x = torch.ones(2, 2, requires_grad=True); y = x + 2; z = y * y * 3; out = z.mean()
InitAutograd ==
    LET x == ones(TRUE)
        y == AddTwo(x, TRUE)
        z == SquareTimes3(y, TRUE)
    IN  /\ tensors = [x |-> x, y |-> y, z |-> z, out |-> Mean(z, TRUE)]
        /\ graph = [buffers |-> "live", saved_y |-> y.data]
        /\ grad_enabled = TRUE
        /\ err = "none"
        /\ read = NoRead
        /\ tmp = NoTmp
        /\ passes = 0
        /\ retained_passes = 0

\* "let's try again": y = x + 2; z = y * y * 3; out = z.mean()
BuildGraph ==
    /\ grad_enabled
    /\ LET y == AddTwo(tensors.x, grad_enabled)
           z == SquareTimes3(y, grad_enabled)
       IN  /\ tensors' = [tensors EXCEPT !.y = y, !.z = z, !.out = Mean(z, grad_enabled)]
           /\ graph' = [buffers |-> "live", saved_y |-> y.data]
    /\ err' = "none"
    /\ retained_passes' = 0
    /\ UNCHANGED <<grad_enabled, read, tmp, passes>>
    /\ UNCHANGED <<nn_vars, lesson_vars>>

\* out.retain_grad()
RetainGrad ==
    /\ grad_enabled
    /\ tensors' = [tensors EXCEPT !.out.retains_grad = TRUE]
    /\ err' = "none"
    /\ retained_passes' = IF tensors.out.retains_grad THEN retained_passes ELSE 0
    /\ UNCHANGED <<graph, grad_enabled, read, tmp, passes>>
    /\ UNCHANGED <<nn_vars, lesson_vars>>

\* out.backward(retain_graph=..., create_graph=...)
Backward(retain_graph, create_graph) ==
    /\ grad_enabled
    /\ IF graph.buffers = "freed"
       THEN /\ err' = "RuntimeError"
            /\ UNCHANGED <<tensors, graph, passes, retained_passes>>
       ELSE /\ passes < MaxPasses
            /\ retained_passes < MaxPasses
            /\ LET g == BackwardGrads
               IN  tensors' = [n \in Names |->
                      IF ~Populated(tensors[n]) THEN tensors[n]
                      ELSE IF tensors[n].is_leaf
                           THEN [tensors[n] EXCEPT !.grad = Accumulate(@, g[n])]
                           ELSE [tensors[n] EXCEPT !.grad = AccumulateRetained(@, g[n])]]
            /\ graph' = [graph EXCEPT !.buffers = BuffersAfter(retain_graph, create_graph)]
            /\ err' = "none"
            /\ passes' = passes + 1
            /\ retained_passes' =
                  IF tensors.out.retains_grad THEN retained_passes + 1 ELSE retained_passes
    /\ UNCHANGED <<grad_enabled, read, tmp>>
    /\ UNCHANGED <<nn_vars, lesson_vars>>

\* x.grad.zero_()
ZeroGrad ==
    /\ tensors.x.grad # None
    /\ tensors' = [tensors EXCEPT !.x.grad = zero_(@)]
    /\ err' = "none"
    /\ passes' = 0
    /\ UNCHANGED <<graph, grad_enabled, read, tmp, retained_passes>>
    /\ UNCHANGED <<nn_vars, lesson_vars>>

\* a cell whose source is `<n>.grad`
ReadGrad(n) ==
    LET r == GradRead(tensors[n])
    IN  /\ read' = [tensor |-> n, is_leaf |-> tensors[n].is_leaf,
                    retains_grad |-> tensors[n].retains_grad,
                    value |-> r.value, warned |-> r.warned, raised |-> r.raised]
        /\ err' = r.raised
        /\ UNCHANGED <<tensors, graph, grad_enabled, tmp, passes, retained_passes>>
        /\ UNCHANGED <<nn_vars, lesson_vars>>

\* `with torch.no_grad():`
EnterNoGrad ==
    /\ grad_enabled
    /\ grad_enabled' = FALSE
    /\ UNCHANGED <<tensors, graph, err, read, tmp, passes, retained_passes>>
    /\ UNCHANGED <<nn_vars, lesson_vars>>

\* the end of the with block
ExitNoGrad ==
    /\ ~grad_enabled
    /\ grad_enabled' = TRUE
    /\ UNCHANGED <<tensors, graph, err, read, tmp, passes, retained_passes>>
    /\ UNCHANGED <<nn_vars, lesson_vars>>

\* print((x ** 2).requires_grad)
Square ==
    /\ tmp' = [made |-> TRUE, mode |-> grad_enabled,
               requires_grad |-> Pow2(tensors.x, grad_enabled).requires_grad]
    /\ err' = "none"
    /\ UNCHANGED <<tensors, graph, grad_enabled, read, passes, retained_passes>>
    /\ UNCHANGED <<nn_vars, lesson_vars>>

\* y = x.detach()
Detach ==
    /\ grad_enabled
    /\ tensors' = [tensors EXCEPT !.y = detach(tensors.x)]
    /\ err' = "none"
    /\ UNCHANGED <<graph, grad_enabled, read, tmp, passes, retained_passes>>
    /\ UNCHANGED <<nn_vars, lesson_vars>>

NextAutograd ==
    \/ BuildGraph
    \/ RetainGrad
    \/ \E r \in RetainArgs, c \in BOOLEAN : Backward(r, c)
    \/ ZeroGrad
    \/ \E n \in Names : ReadGrad(n)
    \/ EnterNoGrad
    \/ ExitNoGrad
    \/ Square
    \/ Detach

----------------------------------------------------------------------------
(* Properties of the autograd notebook *)

AllEntries(g, v) == g # None /\ \A i \in 1..Len(g) : g[i] = v

FourAndAHalf == (9 * Denom) \div 2

\* C1: out.backward() on a graph whose buffers an earlier backward freed raises
\* RuntimeError and changes no tensor; on a live graph it succeeds, and it frees
\* the buffers exactly when the graph is not retained (retain_graph, which
\* defaults to create_graph), so a backward after a retaining one succeeds.
C1_BackwardTwice ==
    [][\A r \in RetainArgs, c \in BOOLEAN :
        Backward(r, c) =>
          /\ graph.buffers = "freed" => err' = "RuntimeError" /\ tensors' = tensors
          /\ graph.buffers = "live" =>
               /\ err' = "none"
               /\ graph'.buffers = "live" <=> (r = "True" \/ (r = "None" /\ c))
               /\ graph'.buffers = "freed" <=> ~(r = "True" \/ (r = "None" /\ c))]_vars

C1_Witness ==
    /\ err = "RuntimeError"
    /\ graph.buffers = "freed"
    /\ passes >= 1

\* C2: after k >= 1 backward passes with no zeroing in between, every entry of
\* x.grad is k * 4.5.
C2_GradAccumulates ==
    passes >= 1 => AllEntries(tensors.x.grad, passes * FourAndAHalf)

C2_Witness ==
    /\ passes = 2
    /\ AllEntries(tensors.x.grad, 2 * FourAndAHalf)

\* C3: x.grad.zero_() leaves every entry of x.grad 0 whatever had been
\* accumulated, and a successful out.backward() on the zeroed gradient leaves
\* every entry 4.5.
C3_ZeroThenBackward ==
    [][/\ ZeroGrad => AllEntries(tensors'.x.grad, 0)
       /\ \A r \in RetainArgs, c \in BOOLEAN :
            (AllEntries(tensors.x.grad, 0) /\ Backward(r, c) /\ err' = "none")
               => AllEntries(tensors'.x.grad, FourAndAHalf)]_vars

C3_Witness ==
    /\ AllEntries(tensors.x.grad, 0)
    /\ retained_passes >= 1
    /\ graph.buffers = "live"

C7_NoGrad ==
    /\ tensors.x.requires_grad
    /\ tmp.made => (tmp.requires_grad <=> tmp.mode)

C7_Witness ==
    /\ tmp.made
    /\ ~tmp.mode
    /\ ~tmp.requires_grad
    /\ grad_enabled

\* C8: y = x.detach() has the content of x (x.eq(y).all()), requires_grad
\* False, and x.requires_grad is still True.
C8_Detach ==
    (tensors.y.is_leaf /\ tensors.y.grad_fn = "None") =>
        /\ all(eq(tensors.x, tensors.y))
        /\ ~tensors.y.requires_grad
        /\ tensors.x.requires_grad

C8_Witness ==
    /\ tensors.y.is_leaf
    /\ tensors.x.requires_grad
    /\ ~tensors.out.is_leaf
    /\ passes >= 1

----------------------------------------------------------------------------
(* nn.Module: __call__, forward, and the hook dictionaries *)

MaxHooks == 2         \* hooks registered in one hook dictionary

InputValues == {1, 2}     \* the values a call's single argument is drawn from

\* Python values that a hook or forward returns
NoneVal == [type |-> "None", v |-> << >>]
IntVal(n) == [type |-> "int", v |-> <<n>>]
TupleVal(s) == [type |-> "tuple", v |-> s]

\* torch.nn.Linear(in, out), on scalars: weight * v + bias
Linear(l, v) == l.weight * v + l.bias

\* torch.nn.ReLU / torch.relu
relu(v) == IF v > 0 THEN v ELSE 0

\* the initial weights torch.nn.Linear draws at random
LinearInits == {[weight |-> 2, bias |-> -1], [weight |-> -1, bias |-> 1]}

\* TwoLayerNet.forward
forward(m, input) ==
    LET l1     == Linear(m.linear1, input[1])
        h_relu == relu(l1)
        y_pred == Linear(m.linear2, h_relu)
    IN  IntVal(y_pred)

\* Module._slow_forward runs forward under the tracer
slow_forward(m, input) == forward(m, input)

\* torch._C._get_tracing_state(): the notebooks never trace a module
get_tracing_state == FALSE

\* the forward pre-hooks a user may register: hook(self, input)
PreHooks == {"returns_none", "returns_value", "returns_tuple"}

PreHookResult(h, input) ==
    CASE h = "returns_none"  -> NoneVal
      [] h = "returns_value" -> IntVal(input[1] * 2)
      [] h = "returns_tuple" -> TupleVal(<<input[1] + 1>>)

\* the forward hooks a user may register: hook(self, input, result)
ForwardHooks == {"returns_none", "negates", "adds_input"}

ForwardHookResult(h, input, result) ==
    CASE h = "returns_none" -> NoneVal
      [] h = "negates"      -> IntVal(0 - result.v[1])
      [] h = "adds_input"   -> IntVal(result.v[1] + input[1])

\* if result is not None: if not isinstance(result, tuple): result = (result,); input = result
PreHookInput_ignored(result, input) == input

PreHookInput(result, input) ==
    IF result.type # "None"
    THEN IF result.type # "tuple" THEN <<result.v[1]>> ELSE result.v
    ELSE input

\* if hook_result is not None: result = hook_result
HookResult(hook_result, result) ==
    IF hook_result.type # "None" THEN hook_result ELSE result

Event(ev, idx, arg, result_in, res) ==
    [ev |-> ev, idx |-> idx, arg |-> arg, result_in |-> result_in, res |-> res]

\* for hook in self._forward_pre_hooks.values(): ...
RECURSIVE RunPreHooks(_, _, _, _)
RunPreHooks(hooks, i, input, trace) ==
    IF i > Len(hooks) THEN [input |-> input, trace |-> trace]
    ELSE LET result == PreHookResult(hooks[i], input)
         IN  RunPreHooks(hooks, i + 1, PreHookInput(result, input),
                         Append(trace, Event("pre_hook", i, input, NoneVal, result)))

\* for hook in self._forward_hooks.values(): ...
RECURSIVE RunForwardHooks(_, _, _, _, _)
RunForwardHooks(hooks, i, input, result, trace) ==
    IF i > Len(hooks) THEN [result |-> result, trace |-> trace]
    ELSE LET hook_result == ForwardHookResult(hooks[i], input, result)
         IN  RunForwardHooks(hooks, i + 1, input, HookResult(hook_result, result),
                             Append(trace, Event("hook", i, input, result, hook_result)))

\* Module.__call__(self, *input)
Module_call(m, input) ==
    LET pre    == RunPreHooks(m.forward_pre_hooks, 1, input, << >>)
        result == IF get_tracing_state THEN slow_forward(m, pre.input)
                  ELSE forward(m, pre.input)
        called == Append(pre.trace, Event("forward", 0, pre.input, NoneVal, result))
        post   == RunForwardHooks(m.forward_hooks, 1, pre.input, result, called)
    IN  [kind |-> "call", input |-> input,
         pre_hooks |-> m.forward_pre_hooks, forward_hooks |-> m.forward_hooks,
         trace |-> post.trace, result |-> post.result,
         grad_fn_hooks |-> IF Len(m.backward_hooks) > 0 THEN m.backward_hooks ELSE << >>]

\* model.forward(x), called directly
Module_forward(m, input) ==
    [kind |-> "forward", input |-> input,
     pre_hooks |-> m.forward_pre_hooks, forward_hooks |-> m.forward_hooks,
     trace |-> <<Event("forward", 0, input, NoneVal, forward(m, input))>>,
     result |-> forward(m, input),
     grad_fn_hooks |-> << >>]

NoCall == [kind |-> "none", input |-> << >>, pre_hooks |-> << >>, forward_hooks |-> << >>,
           trace |-> << >>, result |-> NoneVal, grad_fn_hooks |-> << >>]

\* model = TwoLayerNet(D_in, H, D_out)
InitModule ==
    /\ \E l1 \in LinearInits, l2 \in LinearInits :
          module = [linear1 |-> l1, linear2 |-> l2,
                    forward_pre_hooks |-> << >>, forward_hooks |-> << >>,
                    backward_hooks |-> << >>]
    /\ call = NoCall

\* adds an entry to self._forward_pre_hooks
RegisterForwardPreHook(h) ==
    /\ Len(module.forward_pre_hooks) < MaxHooks
    /\ module' = [module EXCEPT !.forward_pre_hooks = Append(@, h)]
    /\ UNCHANGED <<call, autograd_vars, net, fwd, lesson_vars>>

\* adds an entry to self._forward_hooks
RegisterForwardHook(h) ==
    /\ Len(module.forward_hooks) < MaxHooks
    /\ module' = [module EXCEPT !.forward_hooks = Append(@, h)]
    /\ UNCHANGED <<call, autograd_vars, net, fwd, lesson_vars>>

\* adds an entry to self._backward_hooks
RegisterBackwardHook ==
    /\ Len(module.backward_hooks) < MaxHooks
    /\ module' = [module EXCEPT !.backward_hooks = Append(@, "backward_hook")]
    /\ UNCHANGED <<call, autograd_vars, net, fwd, lesson_vars>>

\* y_pred = model(x)
Call(v) ==
    /\ call' = Module_call(module, <<v>>)
    /\ UNCHANGED <<module, autograd_vars, net, fwd, lesson_vars>>

\* y_pred = model.forward(x)
ForwardDirect(v) ==
    /\ call' = Module_forward(module, <<v>>)
    /\ UNCHANGED <<module, autograd_vars, net, fwd, lesson_vars>>

NextModule ==
    \/ \E h \in PreHooks : RegisterForwardPreHook(h)
    \/ \E h \in ForwardHooks : RegisterForwardHook(h)
    \/ RegisterBackwardHook
    \/ \E v \in InputValues : Call(v)
    \/ \E v \in InputValues : ForwardDirect(v)

----------------------------------------------------------------------------
(* Properties of Module.__call__ *)

\* C9: model(x) runs every registered forward pre-hook in registration order,
\* then forward exactly once, then every registered forward hook in order; each
\* pre-hook's non-None result is the input of what runs next (forward
\* included), each forward hook's non-None result replaces the result, and
\* model.forward(x) runs forward alone.
C9_CallRunsHooksAroundForward ==
    LET np == Len(call.pre_hooks)
        nf == Len(call.forward_hooks)
        t  == call.trace
        Wrapped(r) == IF r.type = "tuple" THEN r.v ELSE <<r.v[1]>>
    IN  /\ call.kind = "call" =>
            /\ Len(t) = np + 1 + nf
            /\ \A i \in 1..np : t[i].ev = "pre_hook" /\ t[i].idx = i
            /\ t[np + 1].ev = "forward"
            /\ \A j \in 1..nf : t[np + 1 + j].ev = "hook" /\ t[np + 1 + j].idx = j
            /\ t[1].arg = call.input
            /\ \A i \in 1..np :
                  t[i + 1].arg = IF t[i].res.type = "None" THEN t[i].arg
                                 ELSE Wrapped(t[i].res)
            /\ \A j \in 1..nf :
                  /\ t[np + 1 + j].arg = t[np + 1].arg
                  /\ t[np + 1 + j].result_in =
                        IF j = 1 THEN t[np + 1].res
                        ELSE IF t[np + j].res.type = "None" THEN t[np + j].result_in
                        ELSE t[np + j].res
            /\ call.result =
                  IF nf = 0 THEN t[np + 1].res
                  ELSE IF t[np + 1 + nf].res.type = "None" THEN t[np + 1 + nf].result_in
                  ELSE t[np + 1 + nf].res
        /\ call.kind = "forward" =>
            /\ Len(t) = 1
            /\ t[1].ev = "forward"
            /\ t[1].arg = call.input
            /\ call.result = t[1].res

C9_Witness ==
    /\ call.kind = "call"
    /\ call.pre_hooks = <<"returns_value", "returns_tuple">>
    /\ call.forward_hooks = <<"adds_input", "returns_none">>
    /\ call.input = <<1>>
    /\ call.trace[3].arg = <<3>>
    /\ call.result = IntVal(call.trace[3].res.v[1] + 3)

----------------------------------------------------------------------------
(* DynamicNet: weight sharing among the innermost layers *)

\* random.randint(a, b): any integer N with a <= N <= b
randint(a, b) == a..b

\* the submodules DynamicNet.__init__ registers
Submodules == {"input_linear", "middle_linear", "output_linear"}

\* model.named_parameters(): weight and bias of every registered Linear
named_parameters(m) == {<<l, p>> : l \in DOMAIN m, p \in {"weight", "bias"}}

Applied(name, l) == [module |-> name, weight |-> l.weight, bias |-> l.bias]

\* for _ in range(hidden_layers): h_relu = torch.relu(self.middle_linear(h_relu))
RECURSIVE MiddleLoop_fresh_layer(_, _, _, _)
MiddleLoop_fresh_layer(m, n, h_relu, applied) ==
    IF n = 0 THEN [h_relu |-> h_relu, applied |-> applied]
    ELSE LET l == [weight |-> m.middle_linear.weight + n, bias |-> m.middle_linear.bias]
         IN  MiddleLoop_fresh_layer(m, n - 1, relu(Linear(l, h_relu)),
                                    Append(applied, Applied("middle_linear", l)))

RECURSIVE MiddleLoop(_, _, _, _)
MiddleLoop(m, n, h_relu, applied) ==
    IF n = 0 THEN [h_relu |-> h_relu, applied |-> applied]
    ELSE MiddleLoop(m, n - 1, relu(Linear(m.middle_linear, h_relu)),
                    Append(applied, Applied("middle_linear", m.middle_linear)))

\* DynamicNet.forward(self, x), with hidden_layers the number random.randint drew
DynamicNet_forward(m, x, hidden_layers) ==
    LET h_relu == relu(Linear(m.input_linear, x))
        mid    == MiddleLoop(m, hidden_layers, h_relu,
                             <<Applied("input_linear", m.input_linear)>>)
        y_pred == Linear(m.output_linear, mid.h_relu)
    IN  [done |-> TRUE, x |-> x, hidden_layers |-> hidden_layers,
         applied |-> Append(mid.applied, Applied("output_linear", m.output_linear)),
         y_pred |-> y_pred,
         parameters |-> named_parameters(m)]

NoForward == [done |-> FALSE, x |-> 0, hidden_layers |-> 0, applied |-> << >>,
              y_pred |-> 0, parameters |-> {}]

\* model = DynamicNet(D_in, H, D_out)
InitNet ==
    /\ net \in [Submodules -> LinearInits]
    /\ fwd = NoForward

\* y_pred = model(x): forward draws hidden_layers = random.randint(0, 3)
Forward(x) ==
    /\ \E hidden_layers \in randint(0, 3) :
          fwd' = DynamicNet_forward(net, x, hidden_layers)
    /\ UNCHANGED <<net, module, call, autograd_vars, lesson_vars>>

\* optimizer.step(): SGD rewrites the values of the parameters in place
OptimizerStep(l, w) ==
    /\ fwd.done
    /\ net[l] # w
    /\ net' = [net EXCEPT ![l] = w]
    /\ UNCHANGED <<fwd, module, call, autograd_vars, lesson_vars>>

NextDynamicNet ==
    \/ \E x \in InputValues : Forward(x)
    \/ \E l \in Submodules, w \in LinearInits : OptimizerStep(l, w)

----------------------------------------------------------------------------
(* Properties of DynamicNet *)

\* C10: a forward call uses 1 + k hidden layers with k in {0, 1, 2, 3}, that is
\* between 1 and 4: input_linear is applied once, then middle_linear k times,
\* then output_linear, every middle application with the weight and bias of the
\* one middle_linear module; the parameters are those of the three Linear
\* modules whatever k was drawn.
C10_DynamicNetSharesWeights ==
    LET k == fwd.hidden_layers
        a == fwd.applied
    IN  fwd.done =>
          /\ k \in {0, 1, 2, 3}
          /\ (1 + k) \in 1..4
          /\ Len(a) = k + 2
          /\ a[1].module = "input_linear"
          /\ \A i \in 2..(k + 1) : a[i].module = "middle_linear"
          /\ a[k + 2].module = "output_linear"
          /\ \A i \in 2..(k + 1), j \in 2..(k + 1) :
                a[i].weight = a[j].weight /\ a[i].bias = a[j].bias
          /\ Cardinality({<<a[i].module, a[i].weight, a[i].bias>> : i \in 1..Len(a)}) <= 3
          /\ fwd.parameters = {<<l, p>> : l \in Submodules, p \in {"weight", "bias"}}
          /\ Cardinality(fwd.parameters) = 6

C10_Witness ==
    /\ fwd.done
    /\ fwd.hidden_layers = 3
    /\ Len(fwd.applied) = 5
    /\ fwd.applied[2] = fwd.applied[4]

----------------------------------------------------------------------------
(* The three TwoLayerNet variants: nn.ReLU, .clamp(min=0), functional relu *)

MaxWeight == 2        \* weights of a Linear are drawn from -MaxWeight..MaxWeight
MaxInput == 3         \* inputs are drawn from -MaxInput..MaxInput

Weights == (0 - MaxWeight)..MaxWeight
Biases == {0 - 1, 0, 1}
VariantInputs == (0 - MaxInput)..MaxInput

\* np.maximum(h, 0); "relu(x) = max(0, x)"
maximum(a, b) == IF a >= b THEN a ELSE b

\* t.clamp(min=...): every element below min becomes min
clamp_from_above(v, min) == IF v > min THEN min ELSE v

clamp(v, min) == IF v < min THEN min ELSE v

\* TwoLayerNet.forward, second version: self.linear1(x).clamp(min=0)
forward_clamp(m, input) ==
    LET h_relu == clamp(Linear(m.linear1, input[1]), 0)
        y_pred == Linear(m.linear2, h_relu)
    IN  IntVal(y_pred)

\* TwoLayerNet.forward, third version: torch.nn.functional.relu(self.linear1(x))
forward_functional(m, input) ==
    LET h_relu == relu(Linear(m.linear1, input[1]))
        y_pred == Linear(m.linear2, h_relu)
    IN  IntVal(y_pred)

NoOutputs == [done |-> FALSE, x |-> 0, l1 |-> 0,
              y_module |-> NoneVal, y_clamp |-> NoneVal, y_functional |-> NoneVal]

NoVariants == [linear1 |-> [weight |-> 0, bias |-> 0],
               linear2 |-> [weight |-> 0, bias |-> 0], out |-> NoOutputs]

\* model = TwoLayerNet(D_in, H, D_out): the same weights given to each variant
InitVariants ==
    \E w1 \in Weights, b1 \in Biases, w2 \in Weights, b2 \in Biases :
        variants = [linear1 |-> [weight |-> w1, bias |-> b1],
                    linear2 |-> [weight |-> w2, bias |-> b2], out |-> NoOutputs]

\* y_pred = model(x), for each of the three class definitions
ForwardVariants(x) ==
    /\ variants' = [variants EXCEPT !.out =
          [done |-> TRUE, x |-> x, l1 |-> Linear(variants.linear1, x),
           y_module     |-> forward(variants, <<x>>),
           y_clamp      |-> forward_clamp(variants, <<x>>),
           y_functional |-> forward_functional(variants, <<x>>)]]
    /\ UNCHANGED <<autograd_vars, nn_vars, loading, helper, kernel>>

NextVariants == \E x \in VariantInputs : ForwardVariants(x)

\* C11: clamp(v, min=0) = relu(v) = max(0, v) for every input v, so the three
\* TwoLayerNet variants return the same output for the same weights and input.
C11_ClampIsReLU ==
    /\ \A v \in 0 - (MaxWeight * MaxInput + 1) .. MaxWeight * MaxInput + 1 :
          /\ clamp(v, 0) = relu(v)
          /\ relu(v) = maximum(0, v)
    /\ variants.out.done =>
          /\ variants.out.y_clamp = variants.out.y_module
          /\ variants.out.y_functional = variants.out.y_module
          /\ variants.out.y_clamp =
                IntVal(Linear(variants.linear2, maximum(0, variants.out.l1)))

C11_Witness ==
    /\ variants.out.done
    /\ variants.out.l1 < 0
    /\ variants.linear2.weight # 0
    /\ variants.out.y_clamp = IntVal(variants.linear2.bias)
    /\ variants.out.y_clamp = variants.out.y_module

----------------------------------------------------------------------------
(* torch.utils.data.DataLoader as the notebooks create and iterate it *)

MaxBatches == 3       \* batches taken from one iterator

LoaderNotebooks == {"part_001", "part_003"}

\* the keyword arguments of each DataLoader(...) call
LoaderCalls(nb) ==
    IF nb = "part_001"
    THEN [train_loader |-> [batch_size |-> 128, shuffle |-> TRUE, num_workers |-> 4,
                            pin_memory |-> TRUE],
          test_loader  |-> [batch_size |-> 32, shuffle |-> FALSE, num_workers |-> 4]]
    ELSE [trainloader  |-> [batch_size |-> 4, shuffle |-> TRUE, num_workers |-> 2],
          testloader   |-> [batch_size |-> 4, shuffle |-> FALSE, num_workers |-> 2]]

\* the library's defaults: DataLoader(dataset, batch_size=1, shuffle=False,
\* num_workers=0, pin_memory=False); num_workers=0 loads in the main process
DataLoaderDefaults ==
    [batch_size |-> 1, shuffle |-> FALSE, num_workers |-> 0, pin_memory |-> FALSE]

\* torch.utils.data.DataLoader(dataset, **kwargs)
DataLoader_default_workers(kwargs) ==
    [k \in DOMAIN DataLoaderDefaults |->
        IF k \in DOMAIN kwargs /\ k # "num_workers" THEN kwargs[k]
        ELSE DataLoaderDefaults[k]]

DataLoader(kwargs) ==
    [k \in DOMAIN DataLoaderDefaults |->
        IF k \in DOMAIN kwargs THEN kwargs[k] ELSE DataLoaderDefaults[k]]

\* the processes that load the batches of an iterator: 0 is the notebook's own
\* process, 1..num_workers are the worker processes
Loaders(config) ==
    IF config.num_workers = 0 THEN {0} ELSE 1..config.num_workers

NoIterator == [loader |-> "-", workers |-> {}, loaded |-> << >>]

\* a kernel of one of the two notebooks, before the DataLoader cell
InitLoading ==
    \E nb \in LoaderNotebooks :
        loading = [notebook |-> nb, created |-> FALSE,
                   loaders |-> [n \in DOMAIN LoaderCalls(nb) |-> DataLoaderDefaults],
                   it |-> NoIterator]

\* the cell that creates the two loaders
CreateLoaders ==
    /\ loading' = [loading EXCEPT
          !.created = TRUE,
          !.loaders = [n \in DOMAIN LoaderCalls(loading.notebook) |->
                          DataLoader(LoaderCalls(loading.notebook)[n])],
          !.it = NoIterator]
    /\ UNCHANGED <<autograd_vars, nn_vars, variants, helper, kernel>>

\* iter(loader) / `for ... in loader:` starts the loader's workers
Iter(n) ==
    /\ loading.created
    /\ loading' = [loading EXCEPT !.it =
          [loader |-> n, workers |-> Loaders(loading.loaders[n]) \ {0}, loaded |-> << >>]]
    /\ UNCHANGED <<autograd_vars, nn_vars, variants, helper, kernel>>

\* next(iterator): the batch comes from one of the loading processes
NextBatch(w) ==
    /\ loading.it.loader # "-"
    /\ Len(loading.it.loaded) < MaxBatches
    /\ w \in Loaders(loading.loaders[loading.it.loader])
    /\ loading' = [loading EXCEPT !.it.loaded = Append(@, w)]
    /\ UNCHANGED <<autograd_vars, nn_vars, variants, helper, kernel>>

\* the end of the loop: the iterator and its workers are gone
EndIter ==
    /\ loading.it.loader # "-"
    /\ loading' = [loading EXCEPT !.it = NoIterator]
    /\ UNCHANGED <<autograd_vars, nn_vars, variants, helper, kernel>>

NextLoading ==
    \/ CreateLoaders
    \/ \E n \in DOMAIN loading.loaders : Iter(n)
    \/ \E w \in 0..4 : NextBatch(w)
    \/ EndIter

\* C12 as stated: every DataLoader the notebooks create uses the default worker
\* setting, and every batch is loaded in the notebook's own process.
C12_DefaultWorkers ==
    loading.created =>
        /\ \A n \in DOMAIN loading.loaders :
              loading.loaders[n].num_workers = DataLoaderDefaults.num_workers
        /\ loading.it.workers = {}
        /\ \A i \in 1..Len(loading.it.loaded) : loading.it.loaded[i] = 0

\* C12 amended: every DataLoader the notebooks create requests worker processes
\* (num_workers=4 in part_001, num_workers=2 in part_003), every iterator runs
\* that many workers, and every batch is loaded by one of them, never by the
\* notebook's own process.
C12_WorkersRequested ==
    loading.created =>
        /\ \A n \in DOMAIN loading.loaders :
              loading.loaders[n].num_workers =
                  IF loading.notebook = "part_001" THEN 4 ELSE 2
        /\ loading.it.loader # "-" =>
              /\ Cardinality(loading.it.workers) =
                    loading.loaders[loading.it.loader].num_workers
              /\ \A i \in 1..Len(loading.it.loaded) :
                    loading.it.loaded[i] \in loading.it.workers

C12_Witness ==
    /\ loading.created
    /\ loading.notebook = "part_001"
    /\ loading.it.loader = "train_loader"
    /\ loading.it.loaded = <<4, 1, 3>>

----------------------------------------------------------------------------
(* The helper functions of part_003: select_n_random, matplotlib_imshow,      *)
(* images_to_probs, plot_classes_preds                                        *)

MaxLen == 3           \* datapoints in the dataset handed to select_n_random

Helpers == {"select_n_random", "matplotlib_imshow", "images_to_probs", "plot_classes_preds"}

\* a statement of a helper's body: a condition the notebook's own code checks
\* and raises on, or a call into a library, which may raise inside the library
Own(site) == [kind |-> "own", site |-> site]
Lib(site) == [kind |-> "library", site |-> site]

RECURSIVE Repeat(_, _)
Repeat(body, k) == IF k = 0 THEN << >> ELSE body \o Repeat(body, k - 1)

\* def matplotlib_imshow(img, one_channel=False)
matplotlib_imshow(one_channel) ==
    (IF one_channel THEN <<Lib("img.mean(dim=0)")>> ELSE << >>)
    \o <<Lib("img / 2 + 0.5"), Lib("img.numpy()")>>
    \o (IF one_channel THEN <<Lib("plt.imshow(npimg, cmap=Greys)")>>
        ELSE <<Lib("np.transpose(npimg, (1, 2, 0))"), Lib("plt.imshow")>>)

\* def images_to_probs(net, images)
images_to_probs ==
    <<Lib("net(images)"), Lib("torch.max(output, 1)"),
      Lib("np.squeeze(preds_tensor.numpy())"), Lib("F.softmax(el, dim=0)[i].item()")>>

\* def plot_classes_preds(net, images, labels): for idx in np.arange(4)
plot_classes_preds ==
    images_to_probs
    \o <<Lib("plt.figure(figsize=(12, 48))")>>
    \o Repeat(<<Lib("fig.add_subplot(1, 4, idx+1)"), Lib("images[idx]")>>
              \o matplotlib_imshow(TRUE)
              \o <<Lib("ax.set_title(...)")>>, 4)

\* def select_n_random(data, labels, n=100)
select_n_random ==
    <<Own("assert len(data) == len(labels)"), Lib("torch.randperm(len(data))"),
      Lib("data[perm][:n]"), Lib("labels[perm][:n]")>>

Body(fn, one_channel) ==
    CASE fn = "select_n_random"    -> select_n_random
      [] fn = "matplotlib_imshow"  -> matplotlib_imshow(one_channel)
      [] fn = "images_to_probs"    -> images_to_probs
      [] fn = "plot_classes_preds" -> plot_classes_preds

\* assert len(data) == len(labels)
AssertHolds_removed(data, labels) == TRUE

AssertHolds(data, labels) == Len(data) = Len(labels)

\* torch.randperm(k): a random permutation (of 1..k here)
randperm(k) == {q \in [1..k -> 1..k] : \A a, b \in 1..k : a # b => q[a] # q[b]}

\* t[perm][:n]
TakePermuted(t, perm, n) ==
    LET shuffled == [j \in 1..Len(perm) |-> t[perm[j]]]
    IN  SubSeq(shuffled, 1, IF n < Len(perm) THEN n ELSE Len(perm))

\* trainset.data and trainset.targets, cut to the given lengths
Data(k) == [j \in 1..k |-> 10 * j]
Targets(k) == [j \in 1..k |-> j % 2]

\* runs a body: the first statement that raises ends the call; fails holds the
\* positions of the statements that raise on this call's inputs
RECURSIVE Run(_, _, _)
Run(body, j, fails) ==
    IF j > Len(body) THEN [raised |-> "none", origin |-> "none", at |-> 0]
    ELSE IF j \in fails /\ body[j].kind = "own"
         THEN [raised |-> "AssertionError", origin |-> "notebook", at |-> j]
    ELSE IF j \in fails
         THEN [raised |-> "LibraryError", origin |-> "library", at |-> j]
    ELSE Run(body, j + 1, fails)

\* the library calls of a body, one of which the environment may let fail
LibraryCalls(body) == {j \in 1..Len(body) : body[j].kind = "library"}

NoHelper == [fn |-> "-", len_data |-> 0, len_labels |-> 0, n |-> 0, raised |-> "none",
             origin |-> "none", at |-> 0, images |-> << >>, labels |-> << >>]

\* images, labels = select_n_random(data, labels, n); labels[perm] raises
\* inside the library when perm indexes past the end of labels
CallSelectNRandom(ld, ll, n, perm, fault) ==
    LET data   == Data(ld)
        labels == Targets(ll)
        fails  == (IF AssertHolds(data, labels) THEN {} ELSE {1})
                  \cup (IF ld > ll THEN {4} ELSE {})
                  \cup (fault \ {0})
        r      == Run(select_n_random, 1, fails)
        ok     == r.raised = "none"
    IN  /\ perm \in randperm(ld)
        /\ fault \in {{0}} \cup {{j} : j \in LibraryCalls(select_n_random)}
        /\ helper' = [fn |-> "select_n_random", len_data |-> ld, len_labels |-> ll,
                      n |-> n, raised |-> r.raised, origin |-> r.origin, at |-> r.at,
                      images |-> IF ok THEN TakePermuted(data, perm, n) ELSE << >>,
                      labels |-> IF ok THEN TakePermuted(labels, perm, n) ELSE << >>]
        /\ UNCHANGED <<autograd_vars, nn_vars, variants, loading, kernel>>

\* a call of one of the helpers that check nothing themselves
CallHelper(fn, one_channel, fault) ==
    LET r == Run(Body(fn, one_channel), 1, fault \ {0})
    IN  /\ fn \in Helpers \ {"select_n_random"}
        /\ fault \in {{0}} \cup {{j} : j \in LibraryCalls(Body(fn, one_channel))}
        /\ helper' = [fn |-> fn, len_data |-> 0, len_labels |-> 0, n |-> 0,
                      raised |-> r.raised, origin |-> r.origin, at |-> r.at,
                      images |-> << >>, labels |-> << >>]
        /\ UNCHANGED <<autograd_vars, nn_vars, variants, loading, kernel>>

NextHelpers ==
    \/ \E ld \in 0..MaxLen, ll \in 0..MaxLen, n \in {1, 2, 100} :
          \E perm \in randperm(ld), fault \in {{j} : j \in 0..Len(select_n_random)} :
              CallSelectNRandom(ld, ll, n, perm, fault)
    \/ \E fn \in Helpers, one_channel \in BOOLEAN :
          \E fault \in {{j} : j \in 0..Len(plot_classes_preds)} :
              CallHelper(fn, one_channel, fault)

\* C13 as stated: a helper function fails only with an exception raised inside
\* an external library call, never with one its own code checks and raises.
C13_OnlyLibraryErrors ==
    helper.raised # "none" => helper.origin = "library"

\* C13 amended: images_to_probs, plot_classes_preds and matplotlib_imshow fail
\* only inside a library call; select_n_random checks len(data) == len(labels)
\* itself and raises AssertionError, before any library call, exactly when the
\* two lengths differ, and otherwise fails only inside a library call.
C13_OnlyAssertIsOwn ==
    /\ helper.fn \in Helpers \ {"select_n_random"} =>
          (helper.raised # "none" => helper.origin = "library")
    /\ helper.fn = "select_n_random" =>
          /\ helper.len_data # helper.len_labels <=>
                (helper.raised = "AssertionError" /\ helper.origin = "notebook")
          /\ helper.origin = "notebook" => helper.at = 1
          /\ (helper.raised # "none" /\ helper.len_data = helper.len_labels)
                => helper.origin = "library"

C13_Witness ==
    /\ helper.fn = "select_n_random"
    /\ helper.len_data = 3
    /\ helper.len_labels = 2
    /\ helper.raised = "AssertionError"
    /\ helper.origin = "notebook"

----------------------------------------------------------------------------
\* Notebooks as sequences of code cells, run top to bottom in a kernel of
\* their own.  A statement is what it reads from the kernel's namespace
\* (builtins aside) and what it binds there.
S(reads, binds) == [reads |-> reads, binds |-> binds]

\* the code cells of dl_intro/2 Torch AutoGrad.ipynb, top to bottom: the top-level statements of each
Cells_AutoGrad ==
    <<
      <<S({}, {"np"}),
        S({}, {"D_in", "D_out", "H", "N"}),
        S({"N", "D_in", "np"}, {"x"}),
        S({"N", "D_out", "np"}, {"y"}),
        S({"D_in", "H", "np"}, {"w1"}),
        S({"H", "D_out", "np"}, {"w2"})>>,
      <<S({}, {"learning_rate"})>>,
      <<S({"w1", "x", "np", "w2", "y", "learning_rate"}, {"grad_h", "grad_h_relu", "grad_w1", "grad_w2", "grad_y_pred", "h", "h_relu", "loss", "t", "w1", "w2", "y_pred"}),
        S({"loss"}, {})>>,
      <<S({}, {"torch"}),
        S({"torch"}, {"dtype"}),
        S({"torch"}, {"device"}),
        S({}, {"D_in", "D_out", "H", "N"}),
        S({"N", "D_in", "torch", "device", "dtype"}, {"x"}),
        S({"N", "D_out", "torch", "device", "dtype"}, {"y"}),
        S({"D_in", "H", "torch", "device", "dtype"}, {"w1"}),
        S({"H", "D_out", "torch", "device", "dtype"}, {"w2"}),
        S({}, {"learning_rate"})>>,
      <<S({"w1", "x", "w2", "y", "learning_rate"}, {"grad_h", "grad_h_relu", "grad_w1", "grad_w2", "grad_y_pred", "h", "h_relu", "loss", "t", "w1", "w2", "y_pred"}),
        S({"loss"}, {})>>,
      <<S({"torch"}, {"x"}),
        S({"x"}, {})>>,
      <<S({"x"}, {"y"}),
        S({"y"}, {})>>,
      <<S({"y"}, {})>>,
      <<S({"y"}, {"z"}),
        S({"z"}, {"out"}),
        S({"z", "out"}, {})>>,
      <<S({"torch"}, {"a"}),
        S({"a"}, {"a"}),
        S({"a"}, {}),
        S({"a"}, {}),
        S({"a"}, {}),
        S({"a"}, {"b"}),
        S({"b"}, {})>>,
      <<S({"out"}, {})>>,
      <<S({"x"}, {})>>,
      <<S({"x"}, {})>>,
      <<S({"out"}, {})>>,
      <<S({"out"}, {}),
        S({"out"}, {})>>,
      <<S({"x"}, {"y"}),
        S({"y"}, {"z"}),
        S({"z"}, {"out"}),
        S({"out"}, {}),
        S({"out"}, {})>>,
      <<S({"x"}, {})>>,
      <<S({"x"}, {}),
        S({"x"}, {})>>,
      <<S({"out"}, {})>>,
      <<S({"x"}, {})>>,
      <<S({"out"}, {})>>,
      <<S({"y"}, {})>>,
      <<S({"x"}, {}),
        S({"x"}, {}),
        S({"torch", "x"}, {})>>,
      <<S({"x"}, {}),
        S({"x"}, {"y"}),
        S({"y"}, {}),
        S({"y", "x"}, {})>>,
      <<S({"torch"}, {"dtype"}),
        S({"torch"}, {"device"}),
        S({}, {"D_in", "D_out", "H", "N"}),
        S({"N", "D_in", "torch", "device", "dtype"}, {"x"}),
        S({"N", "D_out", "torch", "device", "dtype"}, {"y"})>>,
      <<S({"D_in", "H", "torch", "device", "dtype"}, {"w1"}),
        S({"H", "D_out", "torch", "device", "dtype"}, {"w2"})>>,
      <<S({}, {"learning_rate"}),
        S({"w2", "w1", "x", "y", "torch", "learning_rate"}, {"loss", "t", "w1", "w2", "y_pred"})>>
    >>

\* the code cells of dl_intro/3 Torch NN.ipynb, top to bottom: the top-level statements of each
Cells_NN ==
    <<
      <<S({}, {"torch"})>>,
      <<S({}, {"D_in", "D_out", "H", "N"}),
        S({"N", "D_in", "torch"}, {"x"}),
        S({"N", "D_out", "torch"}, {"y"}),
        S({"D_in", "H", "D_out", "torch"}, {"model"})>>,
      <<S({"torch"}, {"loss_fn"}),
        S({}, {"learning_rate"})>>,
      <<S({"model", "x", "loss_fn", "y", "torch", "learning_rate"}, {"loss", "param", "t", "y_pred"})>>,
      <<S({}, {"D_in", "D_out", "H", "N"}),
        S({"N", "D_in", "torch"}, {"x"}),
        S({"N", "D_out", "torch"}, {"y"}),
        S({"D_in", "H", "D_out", "torch"}, {"model"}),
        S({"torch"}, {"loss_fn"})>>,
      <<S({}, {"learning_rate"}),
        S({"learning_rate", "torch", "model"}, {"optimizer"})>>,
      <<S({"model", "x", "loss_fn", "y", "optimizer"}, {"loss", "t", "y_pred"})>>,
      <<S({"torch"}, {"TwoLayerNet"})>>,
      <<S({}, {"D_in", "D_out", "H", "N"}),
        S({"N", "D_in", "torch"}, {"x"}),
        S({"N", "D_out", "torch"}, {"y"})>>,
      <<S({"TwoLayerNet", "D_in", "H", "D_out"}, {"model"})>>,
      <<S({"torch"}, {"criterion"}),
        S({"torch", "model"}, {"optimizer"})>>,
      <<S({"model", "x", "criterion", "y", "optimizer"}, {"loss", "t", "y_pred"})>>,
      <<S({"model"}, {"name_str", "param"})>>,
      <<S({"torch"}, {"TwoLayerNet"})>>,
      <<S({"torch"}, {"TwoLayerNet"})>>,
      <<S({}, {"F"}),
        S({"F", "self"}, {})>>,
      <<S({"TwoLayerNet", "D_in", "H", "D_out"}, {"model"}),
        S({"torch"}, {"criterion"}),
        S({"torch", "model"}, {"optimizer"}),
        S({"model", "x", "criterion", "y", "optimizer"}, {"loss", "t", "y_pred"})>>,
      <<S({}, {"torch"})>>,
      <<S({}, {"random"}),
        S({"torch"}, {"DynamicNet"})>>,
      <<S({}, {"D_in", "D_out", "H", "N"}),
        S({"N", "D_in", "torch"}, {"x"}),
        S({"N", "D_out", "torch"}, {"y"}),
        S({"DynamicNet", "D_in", "H", "D_out"}, {"model"}),
        S({"torch"}, {"criterion"}),
        S({"torch", "model"}, {"optimizer"})>>,
      <<S({"N", "x", "y", "model", "criterion", "optimizer"}, {"end", "i", "loss", "start", "t", "x", "y", "y_pred"})>>
    >>

\* dl_intro/Extra Introduction to GANs.ipynb has no code cell
Cells_GANs == << >>

\* the code cells of unnamed/part_000, top to bottom: the top-level statements of each
Cells_part_000 ==
    <<
      <<S({}, {"datasets"})>>,
      <<S({}, {"load_iris"}),
        S({"load_iris"}, {"X", "y"})>>,
      <<S({"X"}, {"first_sample"})>>,
      <<S({"first_sample"}, {})>>,
      <<S({}, {"load_digits"}),
        S({"load_digits"}, {"digits"})>>,
      <<>>,
      <<S({}, {"fetch_rcv1"})>>,
      <<S({"fetch_rcv1"}, {"rcv1"})>>,
      <<S({"rcv1"}, {})>>,
      <<S({"rcv1"}, {})>>,
      <<S({"rcv1"}, {"X"})>>,
      <<S({"X"}, {})>>,
      <<S({"X"}, {})>>
    >>

\* the code cells of unnamed/part_001, top to bottom: the top-level statements of each
Cells_part_001 ==
    <<
      <<S({}, {"torch"}),
        S({}, {"nn"})>>,
      <<S({}, {"F"})>>,
      <<S({"nn"}, {"AE"})>>,
      <<S({}, {"optim"}),
        S({"torch"}, {"device"}),
        S({"device", "AE"}, {"model"}),
        S({"optim", "model"}, {"optimizer"}),
        S({"nn"}, {"criterion"})>>,
      <<S({}, {"torchvision"}),
        S({"torchvision"}, {"transform"}),
        S({"transform", "torchvision"}, {"train_dataset"}),
        S({"transform", "torchvision"}, {"test_dataset"}),
        S({"train_dataset", "torch"}, {"train_loader"}),
        S({"test_dataset", "torch"}, {"test_loader"})>>,
      <<S({}, {"EPOCHS"}),
        S({"EPOCHS", "train_loader", "device", "optimizer", "model", "criterion"}, {"_", "batch_features", "epoch", "loss", "outputs", "train_loss"})>>,
      <<S({"test_loader"}, {"test_iter"}),
        S({"torch", "test_iter", "model"}, {"_", "images", "reconstructed"})>>,
      <<S({"reconstructed"}, {})>>,
      <<S({"reconstructed"}, {"img"})>>,
      <<S({"img"}, {})>>,
      <<S({}, {"plt"}),
        S({"img", "plt"}, {}),
        S({"plt"}, {})>>,
      <<>>
    >>

\* unnamed/part_002 has no code cell
Cells_part_002 == << >>

\* the code cells of unnamed/part_003, top to bottom: the top-level statements of each
Cells_part_003 ==
    <<
      <<S({}, {"plt"}),
        S({}, {"np"}),
        S({}, {"torch"}),
        S({}, {"torchvision"}),
        S({}, {"transforms"}),
        S({}, {"nn"}),
        S({}, {"F"}),
        S({}, {"optim"})>>,
      <<S({"transforms"}, {"transform"})>>,
      <<S({"transform", "torchvision"}, {"trainset"}),
        S({"transform", "torchvision"}, {"testset"}),
        S({"trainset", "torch"}, {"trainloader"}),
        S({"testset", "torch"}, {"testloader"})>>,
      <<S({}, {"classes"})>>,
      <<S({}, {"matplotlib_imshow"})>>,
      <<S({"nn"}, {"Net"}),
        S({"Net"}, {"net"})>>,
      <<S({"nn"}, {"criterion"}),
        S({"optim", "net"}, {"optimizer"})>>,
      <<S({}, {"SummaryWriter"}),
        S({"SummaryWriter"}, {"writer"})>>,
      <<S({"trainloader"}, {"dataiter"}),
        S({"dataiter"}, {"images", "labels"}),
        S({"images", "torchvision"}, {"img_grid"}),
        S({"matplotlib_imshow", "img_grid"}, {}),
        S({"img_grid", "writer"}, {})>>,
      <<S({"net", "images", "writer"}, {}),
        S({"writer"}, {})>>,
      <<S({}, {"tf"}),
        S({}, {"tb"}),
        S({"tf", "tb"}, {})>>,
      <<S({}, {"select_n_random"}),
        S({"select_n_random", "trainset"}, {"images", "labels"}),
        S({"classes", "labels"}, {"class_labels"}),
        S({"images"}, {"features"}),
        S({"features", "writer", "class_labels", "images"}, {}),
        S({"writer"}, {})>>,
      <<S({}, {"images_to_probs"})>>,
      <<S({}, {"plot_classes_preds"})>>,
      <<S({}, {"running_loss"}),
        S({"trainloader", "optimizer", "net", "criterion", "writer", "plot_classes_preds"}, {"data", "epoch", "i", "inputs", "labels", "loss", "outputs", "running_loss"}),
        S({}, {})>>
    >>

Notebooks == {"2 Torch AutoGrad.ipynb", "3 Torch NN.ipynb",
              "Extra Introduction to GANs.ipynb",
              "part_000", "part_001", "part_002", "part_003"}

Cells(nb) ==
    CASE nb = "2 Torch AutoGrad.ipynb" -> Cells_AutoGrad
      [] nb = "3 Torch NN.ipynb" -> Cells_NN
      [] nb = "Extra Introduction to GANs.ipynb" -> Cells_GANs
      [] nb = "part_000" -> Cells_part_000
      [] nb = "part_001" -> Cells_part_001
      [] nb = "part_002" -> Cells_part_002
      [] nb = "part_003" -> Cells_part_003

\* the next statement to run at or after statement stmt of cell `cell`:
\* an exhausted or empty cell hands over to the cell below it
RECURSIVE Seek(_, _, _)
Seek(nb, cell, stmt) ==
    IF cell > Len(Cells(nb)) THEN [cell |-> cell, stmt |-> 1]
    ELSE IF stmt > Len(Cells(nb)[cell]) THEN Seek(nb, cell + 1, 1)
    ELSE [cell |-> cell, stmt |-> stmt]

\* a fresh kernel for notebook nb: an empty namespace, the first cell next
StartKernel(nb) ==
    [notebook |-> nb,
     cell     |-> Seek(nb, 1, 1).cell,
     stmt     |-> Seek(nb, 1, 1).stmt,
     bound    |-> {},
     raised   |-> "none",
     unbound  |-> {}]

InitKernel == \E nb \in Notebooks : kernel = StartKernel(nb)

\* the kernel runs the next statement: a read of a name the namespace does
\* not hold raises NameError and abandons the rest of the cell, with the
\* bindings of the cell's earlier statements kept; the cell below runs next
RunStatement ==
    /\ kernel.cell <= Len(Cells(kernel.notebook))
    /\ LET s == Cells(kernel.notebook)[kernel.cell][kernel.stmt]
           missing == s.reads \ kernel.bound
           next == IF missing = {}
                   THEN Seek(kernel.notebook, kernel.cell, kernel.stmt + 1)
                   ELSE Seek(kernel.notebook, kernel.cell + 1, 1)
       IN  kernel' = [kernel EXCEPT
                         !.cell = next.cell,
                         !.stmt = next.stmt,
                         !.bound = IF missing = {} THEN @ \cup s.binds ELSE @,
                         !.raised = IF missing = {} THEN "none" ELSE "NameError",
                         !.unbound = @ \cup {<<kernel.cell, n>> : n \in missing}]
    /\ UNCHANGED <<autograd_vars, nn_vars, variants, loading, helper>>

NextKernel == RunStatement

\* C14: each notebook is an independent, linear sequence of cells run top to
\* bottom: every name a cell reads was bound by an earlier cell of the same
\* notebook (or earlier in the cell itself), so no cell reads an unbound name.
C14_NamesBoundEarlier ==
    kernel.unbound = {} /\ kernel.raised = "none"

----------------------------------------------------------------------------
\* the name `model` is bound to one module at a time: each specification
\* constructs the one it exercises and leaves the other unconstructed
NoModule == << >>

IdleLessons == variants = NoVariants /\ loading = NoModule /\ helper = NoHelper /\ kernel = NoModule

\* the autograd notebook
Init ==
    /\ InitAutograd
    /\ module = NoModule /\ call = NoCall
    /\ net = NoModule /\ fwd = NoForward
    /\ IdleLessons

Next == NextAutograd

Spec == Init /\ [][Next]_vars

\* the nn notebook, model = TwoLayerNet(...)
InitM ==
    /\ InitAutograd
    /\ InitModule
    /\ net = NoModule /\ fwd = NoForward
    /\ IdleLessons

NextM == NextModule

SpecModule == InitM /\ [][NextM]_vars

\* the nn notebook, model = DynamicNet(...)
InitD ==
    /\ InitAutograd
    /\ module = NoModule /\ call = NoCall
    /\ InitNet
    /\ IdleLessons

NextD == NextDynamicNet

SpecDynamicNet == InitD /\ [][NextD]_vars

\* the nn notebook, the three definitions of TwoLayerNet
InitV ==
    /\ InitAutograd
    /\ module = NoModule /\ call = NoCall
    /\ net = NoModule /\ fwd = NoForward
    /\ InitVariants
    /\ loading = NoModule /\ helper = NoHelper /\ kernel = NoModule

NextV == NextVariants

SpecVariants == InitV /\ [][NextV]_vars

\* the notebooks that create DataLoaders
InitL ==
    /\ InitAutograd
    /\ module = NoModule /\ call = NoCall
    /\ net = NoModule /\ fwd = NoForward
    /\ variants = NoVariants
    /\ InitLoading
    /\ helper = NoHelper /\ kernel = NoModule

NextL == NextLoading

SpecLoading == InitL /\ [][NextL]_vars

\* part_003, its helper functions
InitH ==
    /\ InitAutograd
    /\ module = NoModule /\ call = NoCall
    /\ net = NoModule /\ fwd = NoForward
    /\ variants = NoVariants
    /\ loading = NoModule
    /\ helper = NoHelper
    /\ kernel = NoModule

NextH == NextHelpers

SpecHelpers == InitH /\ [][NextH]_vars

\* a notebook run top to bottom in a fresh kernel
InitK ==
    /\ InitKernel
    /\ InitAutograd
    /\ module = NoModule /\ call = NoCall
    /\ net = NoModule /\ fwd = NoForward
    /\ variants = NoVariants /\ loading = NoModule /\ helper = NoHelper

NextK == NextKernel

SpecKernel == InitK /\ [][NextK]_vars

====
